---- MODULE Spec2Model ----
(***************************************************************************)
(* Gilded Rose inventory engine (src/python/gilded_rose.py).               *)
(*                                                                         *)
(* The state is the list of Item records held by a GildedRose object.      *)
(* The only operation is GildedRose.update_quality, which walks the list   *)
(* and mutates every item in place.  Python integers are unbounded, so     *)
(* sell_in and quality are modelled as plain integers.                     *)
(***************************************************************************)
EXTENDS Integers, Sequences, FiniteSets

(***************************************************************************)
(* Program constants.                                                      *)
(***************************************************************************)
Sulfuras  == "Sulfuras, Hand of Ragnaros"
AgedBrie  == "Aged Brie"
Backstage == "Backstage passes to a TAFKAL80ETC concert"
Conjured  == "Conjured Mana Cake"

MinQuality == 0
MaxQuality == 50
SulfurasQuality == 80

(***************************************************************************)
(* Bounds of the model.                                                    *)
(***************************************************************************)
\* largest number of consecutive update_quality calls explored
MaxCalls == 50
\* initial sell_in ranges over (0 - SellInBelow) .. SellInAbove
SellInBelow == 2
SellInAbove == 12
\* initial quality ranges QualitySlack below MinQuality and above MaxQuality
QualitySlack == 3
\* longest item list explored
MaxItems == 2

\* names that match none of the four special names fall into the else branch
StandardNames == {"Normal Item", "foo"}
Names == {Sulfuras, AgedBrie, Backstage, Conjured} \cup StandardNames

InitSellIns   == (0 - SellInBelow) .. SellInAbove
InitQualities == ((MinQuality - QualitySlack) .. (MaxQuality + QualitySlack))
                    \cup {SulfurasQuality}

\* Python's max and min builtins on two integers
Max(a, b) == IF a >= b THEN a ELSE b
Min(a, b) == IF a <= b THEN a ELSE b

\* Item(name, sell_in, quality)
Item(name, sell_in, quality) ==
    [name |-> name, sell_in |-> sell_in, quality |-> quality]

\* every item the constructor is called with, one per list
AllItems == { Item(n, s, q) : n \in Names, s \in InitSellIns, q \in InitQualities }

\* items used to build the longer lists: every name, on the eve of the
\* deadline and eleven days before it, near the floor and near the cap
SampleItems ==
    { Item(n, s, q) : n \in Names, s \in {1, 11},
                      q \in {MinQuality + 1, MaxQuality - 1} }

RECURSIVE ListsOver(_, _)
ListsOver(S, n) ==
    IF n = 0 THEN { <<>> }
    ELSE { Append(l, x) : l \in ListsOver(S, n - 1), x \in S }

InitLists ==
    { <<x>> : x \in AllItems }
        \cup UNION { ListsOver(SampleItems, n) : n \in (0 .. MaxItems) \ {1} }

VARIABLES
    items,   \* GildedRose.items: the list of Item records, mutated in place
    init0,   \* the items as they were constructed
    calls    \* number of update_quality calls made so far

vars == <<items, init0, calls>>

(***************************************************************************)
(* The four per-category rules, as the code computes them.                 *)
(***************************************************************************)
\* _update_aged_brie without the second cap test (line 31)
Mutant_update_aged_brie_uncapped(item) ==
    IF item.quality < 50
    THEN LET q1 == item.quality + 1
         IN  IF item.sell_in < 0
             THEN [item EXCEPT !.quality = q1 + 1]
             ELSE [item EXCEPT !.quality = q1]
    ELSE item

\* _update_aged_brie without the post-deadline increment (lines 31-32)
Mutant_update_aged_brie_single(item) ==
    IF item.quality < 50
    THEN [item EXCEPT !.quality = item.quality + 1]
    ELSE item

_update_aged_brie(item) ==
    IF item.quality < 50
    THEN LET q1 == item.quality + 1
         IN  IF item.sell_in < 0 /\ q1 < 50
             THEN [item EXCEPT !.quality = q1 + 1]
             ELSE [item EXCEPT !.quality = q1]
    ELSE item

\* _update_backstage_passes with <= for < in the day thresholds (lines 43, 45)
Mutant_update_backstage_passes_inclusive(item) ==
    IF item.sell_in < 0
    THEN [item EXCEPT !.quality = 0]
    ELSE IF item.quality < 50
         THEN LET q1 == item.quality + 1
                  q2 == IF item.sell_in <= 10 /\ q1 < 50 THEN q1 + 1 ELSE q1
                  q3 == IF item.sell_in <= 5 /\ q2 < 50 THEN q2 + 1 ELSE q2
              IN  [item EXCEPT !.quality = q3]
         ELSE item

\* _update_backstage_passes without the cap test on the last increment (line 45)
Mutant_update_backstage_passes_uncapped(item) ==
    IF item.sell_in < 0
    THEN [item EXCEPT !.quality = 0]
    ELSE IF item.quality < 50
         THEN LET q1 == item.quality + 1
                  q2 == IF item.sell_in < 10 /\ q1 < 50 THEN q1 + 1 ELSE q1
                  q3 == IF item.sell_in < 5 THEN q2 + 1 ELSE q2
              IN  [item EXCEPT !.quality = q3]
         ELSE item

_update_backstage_passes(item) ==
    IF item.sell_in < 0
    THEN [item EXCEPT !.quality = 0]
    ELSE IF item.quality < 50
         THEN LET q1 == item.quality + 1
                  q2 == IF item.sell_in < 10 /\ q1 < 50 THEN q1 + 1 ELSE q1
                  q3 == IF item.sell_in < 5 /\ q2 < 50 THEN q2 + 1 ELSE q2
              IN  [item EXCEPT !.quality = q3]
         ELSE item

\* _update_conjured_item with <= for < in the deadline test (line 51)
Mutant_update_conjured_item_inclusive(item) ==
    LET degradation == IF item.sell_in <= 0 THEN 4 ELSE 2
    IN  [item EXCEPT !.quality = Max(0, item.quality - degradation)]

\* _update_conjured_item without the floor (line 54)
Mutant_update_conjured_item_unfloored(item) ==
    LET degradation == IF item.sell_in < 0 THEN 4 ELSE 2
    IN  [item EXCEPT !.quality = item.quality - degradation]

_update_conjured_item(item) ==
    LET degradation == IF item.sell_in < 0 THEN 4 ELSE 2
    IN  [item EXCEPT !.quality = Max(0, item.quality - degradation)]

\* _update_normal_item with <= for < in the deadline test (line 61)
Mutant_update_normal_item_inclusive(item) ==
    IF item.quality > 0
    THEN LET q1 == item.quality - 1
         IN  IF item.sell_in <= 0 /\ q1 > 0
             THEN [item EXCEPT !.quality = q1 - 1]
             ELSE [item EXCEPT !.quality = q1]
    ELSE item

\* _update_normal_item with the floor test off by one (line 58)
Mutant_update_normal_item_stuck(item) ==
    IF item.quality > 1
    THEN LET q1 == item.quality - 1
         IN  IF item.sell_in < 0 /\ q1 > 0
             THEN [item EXCEPT !.quality = q1 - 1]
             ELSE [item EXCEPT !.quality = q1]
    ELSE item

_update_normal_item(item) ==
    IF item.quality > 0
    THEN LET q1 == item.quality - 1
         IN  IF item.sell_in < 0 /\ q1 > 0
             THEN [item EXCEPT !.quality = q1 - 1]
             ELSE [item EXCEPT !.quality = q1]
    ELSE item

\* update_quality's loop body without the Sulfuras skip (lines 10-11)
MutantUpdateItem_NoSkip(item) ==
    LET aged == [item EXCEPT !.sell_in = item.sell_in - 1]
    IN  IF aged.name = AgedBrie THEN _update_aged_brie(aged)
        ELSE IF aged.name = Backstage THEN _update_backstage_passes(aged)
        ELSE IF aged.name = Conjured THEN _update_conjured_item(aged)
        ELSE _update_normal_item(aged)

\* update_quality's loop body with the decrement moved into the quality
\* rules' guard: an item whose quality is at the floor no longer ages
MutantUpdateItem_NoAgeAtFloor(item) ==
    IF item.name = Sulfuras \/ item.quality = 0
    THEN item
    ELSE LET aged == [item EXCEPT !.sell_in = item.sell_in - 1]
         IN  IF aged.name = AgedBrie THEN _update_aged_brie(aged)
             ELSE IF aged.name = Backstage THEN _update_backstage_passes(aged)
             ELSE IF aged.name = Conjured THEN _update_conjured_item(aged)
             ELSE _update_normal_item(aged)

\* the body of the for loop of update_quality, for one item
UpdateItem(item) ==
    IF item.name = Sulfuras
    THEN item
    ELSE LET aged == [item EXCEPT !.sell_in = item.sell_in - 1]
         IN  IF aged.name = AgedBrie THEN _update_aged_brie(aged)
             ELSE IF aged.name = Backstage THEN _update_backstage_passes(aged)
             ELSE IF aged.name = Conjured THEN _update_conjured_item(aged)
             ELSE _update_normal_item(aged)

Init ==
    /\ items \in InitLists
    /\ init0 = items
    /\ calls = 0

\* GildedRose.update_quality: one pass over the whole list
update_quality ==
    /\ calls < MaxCalls
    /\ items' = [i \in DOMAIN items |-> UpdateItem(items[i])]
    /\ calls' = calls + 1
    /\ UNCHANGED init0

Next == update_quality

Spec == Init /\ [][Next]_vars

\* the caller keeps calling update_quality, one simulated day after another
LiveSpec == Spec /\ WF_vars(update_quality)

(***************************************************************************)
(* Vocabulary of the properties.                                           *)
(***************************************************************************)
InRange(q) == MinQuality <= q /\ q <= MaxQuality

Clamp(x, lo, hi) == Max(lo, Min(hi, x))

IsStandard(name) == name \notin {Sulfuras, AgedBrie, Backstage, Conjured}

\* the two categories whose quality only goes down
Decays(name) == IsStandard(name) \/ name = Conjured

\* the sum of a category's quality deltas for one cycle, s being the
\* sell_in after the decrement (Backstage passes: only for s >= 0)
Delta(name, s) ==
    IF name = AgedBrie THEN (IF s < 0 THEN 2 ELSE 1)
    ELSE IF name = Backstage THEN (IF s < 5 THEN 3 ELSE IF s < 10 THEN 2 ELSE 1)
    ELSE IF name = Conjured THEN (IF s < 0 THEN 0 - 4 ELSE 0 - 2)
    ELSE (IF s < 0 THEN 0 - 2 ELSE 0 - 1)

(***************************************************************************)
(* C1.  Every item that is not Sulfuras and was constructed with a quality *)
(* in [0,50] has 0 <= quality <= 50 after every update_quality call.       *)
(***************************************************************************)
C1_QualityStaysInRange ==
    \A i \in DOMAIN items :
        (items[i].name # Sulfuras /\ InRange(init0[i].quality))
            => InRange(items[i].quality)

\* a list holding an Aged Brie that ran into the cap and a standard item
\* that ran into the floor
C1_Witness ==
    /\ calls >= 2
    /\ Len(items) = 2
    /\ init0[1] = Item(AgedBrie, 1, 49) /\ items[1].quality = 50
    /\ init0[2] = Item("Normal Item", 1, 1) /\ items[2].quality = 0

(***************************************************************************)
(* C2.  A Sulfuras item keeps the sell_in and the quality it was           *)
(* constructed with, whatever they are, through any number of calls.       *)
(***************************************************************************)
C2_SulfurasUnchanged ==
    \A i \in DOMAIN items :
        init0[i].name = Sulfuras
            => /\ items[i].sell_in = init0[i].sell_in
               /\ items[i].quality = init0[i].quality

\* a Sulfuras past its deadline with a quality that is neither 80 nor in
\* [0,50], after several calls
C2_Witness ==
    /\ calls >= 3
    /\ \E i \in DOMAIN items :
          /\ items[i].name = Sulfuras
          /\ items[i].sell_in < 0
          /\ items[i].quality > MaxQuality
          /\ items[i].quality # SulfurasQuality

(***************************************************************************)
(* C3.  After n calls the sell_in of every non-legendary item is its       *)
(* initial value minus n, whatever its category and quality.               *)
(***************************************************************************)
C3_SellInCountsDown ==
    \A i \in DOMAIN items :
        items[i].name # Sulfuras => items[i].sell_in = init0[i].sell_in - calls

\* a standard item that was constructed at the floor, far past its deadline
C3_Witness ==
    /\ calls >= 20
    /\ \E i \in DOMAIN items :
          /\ IsStandard(items[i].name)
          /\ init0[i].quality = 0
          /\ init0[i].sell_in = 0
          /\ items[i].sell_in = 0 - calls

(***************************************************************************)
(* C4.  One call on a Backstage pass of quality q in [0,50], s being its   *)
(* sell_in after the decrement: quality becomes 0 when s < 0, else         *)
(* min(50, q+1) when s >= 10, min(50, q+2) when 5 <= s < 10 and            *)
(* min(50, q+3) when 0 <= s < 5.                                           *)
(***************************************************************************)
C4_BackstageRule ==
    [][ \A i \in DOMAIN items :
          (items[i].name = Backstage /\ InRange(items[i].quality))
            => LET q == items[i].quality
                   s == items'[i].sell_in
               IN  items'[i].quality =
                     IF s < 0 THEN 0
                     ELSE IF s >= 10 THEN Min(50, q + 1)
                     ELSE IF s >= 5 THEN Min(50, q + 2)
                     ELSE Min(50, q + 3) ]_vars

\* a pass five days before the concert whose third increment hits the cap
C4_Witness ==
    /\ calls = 1
    /\ init0 = << Item(Backstage, 5, 48) >>
    /\ items = << Item(Backstage, 4, 50) >>

(***************************************************************************)
(* C5.  One call on a Conjured Mana Cake of quality q in [0,50] gives      *)
(* max(0, q-2) when the decremented sell_in is >= 0 and max(0, q-4) when   *)
(* it is < 0: a loss of exactly 2 or 4 when q allows it, never a negative  *)
(* quality.                                                                *)
(***************************************************************************)
C5_ConjuredRule ==
    [][ \A i \in DOMAIN items :
          (items[i].name = Conjured /\ InRange(items[i].quality))
            => LET q == items[i].quality
                   s == items'[i].sell_in
                   d == IF s >= 0 THEN 2 ELSE 4
               IN  /\ items'[i].quality = Max(0, q - d)
                   /\ q >= d => items'[i].quality = q - d
                   /\ items'[i].quality >= 0 ]_vars

\* a cake on its last day losing 4 of 20
C5_Witness ==
    /\ calls = 1
    /\ init0 = << Item(Conjured, 0, 20) >>
    /\ items = << Item(Conjured, 0 - 1, 16) >>

(***************************************************************************)
(* C6.  One call on a standard item of quality q in [0,50] gives           *)
(* max(0, q-1) when the decremented sell_in is >= 0 and max(0, q-2) when   *)
(* it is < 0; an item whose sell_in is 0 before the call already loses 2.  *)
(***************************************************************************)
C6_StandardRule ==
    [][ \A i \in DOMAIN items :
          (IsStandard(items[i].name) /\ InRange(items[i].quality))
            => LET q == items[i].quality
                   s == items'[i].sell_in
               IN  /\ s = items[i].sell_in - 1
                   /\ items'[i].quality =
                        IF s >= 0 THEN Max(0, q - 1) ELSE Max(0, q - 2) ]_vars

\* a standard item with sell_in 0 before the call losing 2 of 10
C6_Witness ==
    /\ calls = 1
    /\ init0 = << Item("Normal Item", 0, 10) >>
    /\ items = << Item("Normal Item", 0 - 1, 8) >>

(***************************************************************************)
(* C7.  One call on an Aged Brie of quality q in [0,50] gives min(50, q+1) *)
(* when the decremented sell_in is >= 0 and min(50, q+2) when it is < 0;   *)
(* quality never decreases and an item at 50 stays at 50.                  *)
(***************************************************************************)
C7_AgedBrieRule ==
    [][ \A i \in DOMAIN items :
          (items[i].name = AgedBrie /\ InRange(items[i].quality))
            => LET q == items[i].quality
                   s == items'[i].sell_in
               IN  /\ items'[i].quality =
                        IF s >= 0 THEN Min(50, q + 1) ELSE Min(50, q + 2)
                   /\ items'[i].quality >= q
                   /\ q = 50 => items'[i].quality = 50 ]_vars

\* a brie past its deadline gaining 2
C7_Witness ==
    /\ calls = 1
    /\ init0 = << Item(AgedBrie, 0, 20) >>
    /\ items = << Item(AgedBrie, 0 - 1, 22) >>

(***************************************************************************)
(* C8.  Under repeated calls every standard item and every Conjured Mana   *)
(* Cake constructed with a quality in [0,50] eventually has quality 0, and *)
(* once its quality is 0 it is 0 after every later call.                   *)
(***************************************************************************)
C8_ConvergesToZero ==
    /\ <>[]( \A i \in DOMAIN items :
               (Decays(items[i].name) /\ InRange(init0[i].quality))
                  => items[i].quality = 0 )
    /\ [][ \A i \in DOMAIN items :
             (Decays(items[i].name) /\ items[i].quality = 0)
                => items'[i].quality = 0 ]_vars

\* a standard item constructed at the cap, long before its deadline, that
\* has come down to 0
C8_Witness ==
    \E i \in DOMAIN items :
        /\ IsStandard(items[i].name)
        /\ init0[i].quality = MaxQuality
        /\ init0[i].sell_in >= 10
        /\ items[i].quality = 0

(***************************************************************************)
(* C9.  One call yields the same quality as summing the category's deltas  *)
(* for the cycle and clamping once, clamp(q + d, 0, 50): stated for every  *)
(* integer quality q (the original claim), and for q in [0,50] (amended).  *)
(***************************************************************************)
\* the original claim: for every non-legendary item and every integer q
C9_ClampOnceAnyQuality ==
    [][ \A i \in DOMAIN items :
          LET n == items[i].name
              q == items[i].quality
              s == items'[i].sell_in
          IN  (n # Sulfuras /\ ~(n = Backstage /\ s < 0))
                => items'[i].quality = Clamp(q + Delta(n, s), 0, 50) ]_vars

\* C9 as amended: for every non-legendary item whose quality q is in
\* [0,50] before the call, the call yields clamp(q + d, 0, 50)
C9_ClampOnceInRange ==
    [][ \A i \in DOMAIN items :
          LET n == items[i].name
              q == items[i].quality
              s == items'[i].sell_in
          IN  (n # Sulfuras /\ ~(n = Backstage /\ s < 0) /\ InRange(q))
                => items'[i].quality = Clamp(q + Delta(n, s), 0, 50) ]_vars

\* a standard item past its deadline whose second guarded decrement is
\* refused at the floor, where the single clamp cuts 1 - 2 to 0
C9_Witness ==
    /\ calls = 1
    /\ init0 = << Item("foo", 0, 1) >>
    /\ items = << Item("foo", 0 - 1, 0) >>

(***************************************************************************)
(* C10.  The range of quality after a call, for a non-legendary item       *)
(* constructed with any integer quality q0: within [0,50] (the original    *)
(* claim), and within [min(0,q0), max(50,q0)] (amended).                   *)
(***************************************************************************)
\* the original claim: from the first call on, 0 <= quality <= 50
C10_RangeEnforcedAnyQuality ==
    \A i \in DOMAIN items :
        (items[i].name # Sulfuras /\ calls >= 1) => InRange(items[i].quality)

\* C10 as amended: after every call quality lies between min(0, q0) and
\* max(50, q0); the engine never moves it further out of [0,50], and
\* keeps it inside when q0 is inside
C10_RangeNeverLeftFurther ==
    \A i \in DOMAIN items :
        (items[i].name # Sulfuras /\ calls >= 1)
            => /\ Min(MinQuality, init0[i].quality) <= items[i].quality
               /\ items[i].quality <= Max(MaxQuality, init0[i].quality)

\* an Aged Brie constructed above the cap, still above it after a call
C10_Witness ==
    /\ calls >= 1
    /\ \E i \in DOMAIN items :
          /\ items[i].name = AgedBrie
          /\ init0[i].quality = MaxQuality + 1
          /\ items[i].quality = MaxQuality + 1

====
